---- MODULE Spec2Model ----
(***************************************************************************)
(* The chat widget scripts of API_Chatbot_Bytes_And_Cookies as one state   *)
(* machine.  A page loads exactly one of the scripts (variant); the user   *)
(* edits the input field, presses keys, clicks the send button and the     *)
(* match buttons; the browser settles the two awaits of sendMessage        *)
(* (fetch, then res.json()).  Strings are sequences of one-character       *)
(* strings, so that trim and escapeHtml are computed, not assumed.         *)
(***************************************************************************)
EXTENDS Integers, Sequences, FiniteSets, TLC

VARIABLES
    variant,          \* which script the page has loaded
    inputValue,       \* inputField.value
    inputDisabled,    \* inputField.disabled
    sendBtnDisabled,  \* sendBtn.disabled
    messages,         \* the rows of the #messages container, in DOM order
    calls,            \* one record per sendMessage call that passed the empty check
    nCalls,           \* number of sendMessage invocations so far (history)
    nClicks,          \* number of match-button clicks so far (history)
    lastClick,        \* the latest match-button click and its effect (history)
    lastKey           \* the key of the latest keypress event (history)

vars == <<variant, inputValue, inputDisabled, sendBtnDisabled, messages,
          calls, nCalls, nClicks, lastClick, lastKey>>

---------------------------------------------------------------------------
(* Bounds of the model *)

MaxCalls == 2
MaxClicks == 2
MaxMatches == 2

---------------------------------------------------------------------------
(* The scripts *)

AppChat == "app_chat/static/js/script.js"
StaticJs == "static/js/script.js"
Legacy == "static/script.js:1-60"
Single == "static/script.js:62-153"
Part000 == "unnamed/part_000"

Variants == {AppChat, StaticJs, Legacy, Single, Part000}

\* response shape each script reads: top_matches, or answer/confidence
MultiMatch(v) == v \in {AppChat, StaticJs}

---------------------------------------------------------------------------
(* Strings *)

IsSpace(c) == c \in {" ", "\n"}

RECURSIVE TrimLeft(_)
TrimLeft(s) ==
    IF s = <<>> THEN <<>>
    ELSE IF IsSpace(Head(s)) THEN TrimLeft(Tail(s)) ELSE s

RECURSIVE TrimRight(_)
TrimRight(s) ==
    IF s = <<>> THEN <<>>
    ELSE IF IsSpace(s[Len(s)]) THEN TrimRight(SubSeq(s, 1, Len(s) - 1)) ELSE s

\* String.prototype.trim
trim(s) == TrimRight(TrimLeft(s))

\* s.replace(/c/g, rep) for a one-character pattern c
RECURSIVE ReplaceAll(_, _, _)
ReplaceAll(s, c, rep) ==
    IF s = <<>> THEN <<>>
    ELSE (IF Head(s) = c THEN rep ELSE <<Head(s)>>) \o ReplaceAll(Tail(s), c, rep)

AmpEntity == <<"&", "a", "m", "p", ";">>
LtEntity == <<"&", "l", "t", ";">>
GtEntity == <<"&", "g", "t", ";">>
QuotEntity == <<"&", "q", "u", "o", "t", ";">>
AposEntity == <<"&", "#", "0", "3", "9", ";">>
BrTag == <<"<", "b", "r", ">", "\n">>

escapeHtml(unsafe) ==
    ReplaceAll(ReplaceAll(ReplaceAll(ReplaceAll(ReplaceAll(unsafe,
        "&", AmpEntity), "<", LtEntity), ">", GtEntity), "\"", QuotEntity),
        "'", AposEntity)

\* escapeHtml(x).replace(/\n/g, "<br>\n")
UserHtml(text) == ReplaceAll(escapeHtml(text), "\n", BrTag)

\* what the user may have in the input field
Inputs ==
    { <<>>,
      <<" ", "\n">>,
      <<" ", "h", "i", "\n">>,
      <<"<", "b", ">", "\"", "'", "\n", "&", "l", "t", ";">> }

---------------------------------------------------------------------------
(* The response payloads of the remote answering service *)

\* a match of the multi-match shape; markup: the keyword holds an inline
\* element, which the scripts insert into the button unescaped
Matches ==
    { [keyword |-> "intro", confidence |-> 870, answer |-> "Welcome!", markup |-> FALSE],
      [keyword |-> "<b>fees</b>", confidence |-> 500, answer |-> "Fees text", markup |-> TRUE],
      [keyword |-> "exam", confidence |-> 0, answer |-> "", markup |-> FALSE] }

RECURSIVE SeqsUpTo(_, _)
SeqsUpTo(S, n) ==
    IF n = 0 THEN {<<>>}
    ELSE LET shorter == SeqsUpTo(S, n - 1)
         IN  shorter \cup {Append(q, x) : q \in shorter, x \in S}

NoMatches == [present |-> FALSE, list |-> <<>>]

\* data.top_matches: absent, or a list of at most MaxMatches matches
TopMatches ==
    {NoMatches} \cup {[present |-> TRUE, list |-> q] : q \in SeqsUpTo(Matches, MaxMatches)}

Absent == "undefined"

\* data.answer: absent, empty or a text; data.confidence: absent (<<>>) or a
\* number, kept in thousandths
AnswerValues == {Absent, "", "The answer"}
ConfidenceValues == {<<>>, <<0>>, <<870>>}

\* the parsed body, restricted to the fields the loaded script reads
DataFor(v) ==
    CASE MultiMatch(v) ->
            {[top_matches |-> t, answer |-> Absent, confidence |-> <<>>] : t \in TopMatches}
      [] v = Legacy ->
            {[top_matches |-> NoMatches, answer |-> a, confidence |-> <<>>] :
                a \in AnswerValues}
      [] OTHER ->
            {[top_matches |-> NoMatches, answer |-> a, confidence |-> c] :
                a \in AnswerValues, c \in ConfidenceValues}

NoData == [top_matches |-> NoMatches, answer |-> Absent, confidence |-> <<>>]

\* JavaScript truthiness of a string-or-undefined value
Truthy(x) == x \notin {Absent, ""}

\* (confidence * 100).toFixed(1), as <<integer part, decimal digit>>
Percent(c) == <<c \div 10, c % 10>>

---------------------------------------------------------------------------
(* The transcript: rows of #messages and the innerHTML of their .message *)

Content(kind, html, buttons, rank, kw, body) ==
    [kind |-> kind, html |-> html, buttons |-> buttons, rank |-> rank,
     kw |-> kw, body |-> body]

Html(chars) == Content("html", chars, <<>>, 0, "", "")
Typing == Content("typing", <<>>, <<>>, 0, "", "")
ConnectError == Content("error", <<>>, <<>>, 0, "", "")
NoAnswerFound == Content("noanswer", <<>>, <<>>, 0, "", "")
Text(body) == Content("text", <<>>, <<>>, 0, "", body)
Revealed(rank, kw, body) == Content("answer", <<>>, <<>>, rank, kw, body)

\* a row of the transcript: extras are the elements appended to the row
\* beside its .message (the confidence annotations)
Row(sender, content) == [sender |-> sender, content |-> content, extras |-> <<>>]

RowsOf(msgs, sender) == {i \in 1..Len(msgs) : msgs[i].sender = sender}

Max(S) == CHOOSE x \in S : \A y \in S : y <= x

\* rows = messages.querySelectorAll(".<sender>-row .message"); rows[rows.length - 1]
LastRow(msgs, sender) == Max(RowsOf(msgs, sender))

---------------------------------------------------------------------------
(* The page as a handler sees it.  A handler runs to its next await without *)
(* interleaving, so it is a function from page to page; trace lists the     *)
(* effects of the running handler in statement order and ret is the value   *)
(* its last call returned.                                                  *)

Page ==
    [value |-> inputValue, inputDisabled |-> inputDisabled,
     sendDisabled |-> sendBtnDisabled, messages |-> messages, calls |-> calls,
     trace |-> <<>>, ret |-> 0]

Log(P, what) == [P EXCEPT !.trace = Append(@, what)]

\* inputField.disabled = b; sendBtn.disabled = b
SetDisabled(P, b) ==
    Log([P EXCEPT !.inputDisabled = b, !.sendDisabled = b],
        IF b THEN "disable" ELSE "enable")

\* messages.appendChild(node)
AppendChild(P, row) ==
    Log([P EXCEPT !.messages = Append(@, row)], row.sender)

\* the two multi-match scripts: the renderer escapes the user's text itself
appendMessageNodeEscaping(P, textHTML, sender) ==
    LET shown == IF sender = "bot" THEN textHTML ELSE Html(UserHtml(textHTML.html))
        P1 == AppendChild(P, Row(sender, shown))
    IN  [P1 EXCEPT !.ret = LastRow(P1.messages, sender)]

\* the single-answer scripts: innerHTML = textHTML, the caller escapes
appendMessageNodeRaw(P, textHTML, sender) ==
    LET P1 == AppendChild(P, Row(sender, textHTML))
    IN  [P1 EXCEPT !.ret = LastRow(P1.messages, sender)]

\* the first script of static/script.js: innerHTML = text, nothing returned
appendMessage(P, text, sender) ==
    [AppendChild(P, Row(sender, text)) EXCEPT !.ret = 0]

appendMessageNode(v, P, textHTML, sender) ==
    CASE v \in {AppChat, StaticJs} -> appendMessageNodeEscaping(P, textHTML, sender)
      [] v \in {Single, Part000} -> appendMessageNodeRaw(P, textHTML, sender)
      [] OTHER -> appendMessage(P, textHTML, sender)

\* the argument sendMessage passes for the user's row
UserArgument(v, input) ==
    IF v \in {Single, Part000} THEN Html(UserHtml(input)) ELSE Html(input)

\* whether sendMessage sets inputField.disabled and sendBtn.disabled
DisablesControls(v) == v # Legacy

\* whether sendMessage keeps the node appendMessageNode returned (typingNode)
KeepsTypingNode(v) == v # Legacy

\* whether sendMessage throws on !res.ok
ChecksStatus(v) == v # Legacy

\* fetch(API_URL, {method: "POST", body: ...}): one more call suspended at
\* its first await.  History: placeholder is the row this call appended,
\* trace the effects of the call up to here
Fetch(P, input, node, userRow) ==
    Log([P EXCEPT !.calls = Append(@,
            [pc |-> "fetch", query |-> input, typingNode |-> node,
             userRow |-> userRow, placeholder |-> Len(P.messages),
             trace |-> Append(P.trace, "fetch"),
             status |-> "none", finallyRuns |-> 0, wrote |-> 0, outcome |-> "pending",
             data |-> NoData])],
        "fetch")

\* a plausible slip: the emptiness test made on the untrimmed value
IsEmptyUntrimmed(P) == P.value = <<>>

\* const input = inputField.value.trim(); if (!input) return
IsEmpty(P) == trim(P.value) = <<>>

\* a plausible slip: the typing indicator appended before the user's row
sendMessageTypingFirst(v, P) ==
    IF IsEmpty(P) THEN P
    ELSE LET input == trim(P.value)
             P1 == IF DisablesControls(v) THEN SetDisabled(P, TRUE) ELSE P
             P2 == appendMessageNode(v, P1, Typing, "bot")
             P3 == appendMessageNode(v, P2, UserArgument(v, input), "user")
             P4 == Log([P3 EXCEPT !.value = <<>>], "clear")
         IN  Fetch(P4, input, IF KeepsTypingNode(v) THEN P2.ret ELSE 0,
                   Len(P3.messages))

\* sendMessage up to its first await
sendMessage(v, P) ==
    IF IsEmpty(P) THEN P
    ELSE LET input == trim(P.value)
             P1 == IF DisablesControls(v) THEN SetDisabled(P, TRUE) ELSE P
             P2 == appendMessageNode(v, P1, UserArgument(v, input), "user")
             P3 == Log([P2 EXCEPT !.value = <<>>], "clear")
             P4 == appendMessageNode(v, P3, Typing, "bot")
         IN  Fetch(P4, input, IF KeepsTypingNode(v) THEN P4.ret ELSE 0,
                   Len(P2.messages))

\* the page after a handler has run
Commit(P) ==
    /\ inputValue' = P.value
    /\ inputDisabled' = P.inputDisabled
    /\ sendBtnDisabled' = P.sendDisabled
    /\ messages' = P.messages
    /\ calls' = P.calls

---------------------------------------------------------------------------
(* sendMessage after its awaits *)

\* node.innerHTML = content
SetInnerHTML(P, node, content) ==
    [P EXCEPT !.messages[node].content = content]

\* the node a continuation of call id writes: typingNode, or in the first
\* script of static/script.js botMessages[botMessages.length - 1]
TargetNode(v, P, id) ==
    IF KeepsTypingNode(v) THEN P.calls[id].typingNode ELSE LastRow(P.messages, "bot")

Settle(P, id, node, outcome) ==
    [P EXCEPT !.calls[id].pc = "done", !.calls[id].wrote = node,
              !.calls[id].outcome = outcome]

\* a plausible slip: the catch block issues the request again
CatchRetrying(v, P, id) ==
    LET node == TargetNode(v, P, id)
        Q == Settle(SetInnerHTML(P, node, ConnectError), id, node, "error")
    IN  [Q EXCEPT !.calls = Append(@, [P.calls[id] EXCEPT !.pc = "fetch"])]

\* catch (err) { typingNode.innerHTML = "Unable to connect ..." }
Catch(v, P, id) ==
    LET node == TargetNode(v, P, id)
    IN  Settle(SetInnerHTML(P, node, ConnectError), id, node, "error")

\* finally { inputField.disabled = false; sendBtn.disabled = false; focus() }
Finally(v, P, id) ==
    IF DisablesControls(v)
    THEN [SetDisabled(P, FALSE) EXCEPT !.calls[id].finallyRuns = @ + 1]
    ELSE P

\* the buttons built from data.top_matches, in response order
Buttons(list) ==
    [i \in 1..Len(list) |->
        [rank |-> i, keyword |-> list[i].keyword,
         percent |-> Percent(list[i].confidence), markup |-> list[i].markup,
         index |-> i - 1, match |-> list[i], all |-> list]]

\* a plausible slip: the list is rendered with the answer of its first match
MatchListWithAnswer(list) ==
    Content("matches", <<>>, Buttons(list), 0, "",
            IF list = <<>> THEN "" ELSE list[1].answer)

MatchList(list) == Content("matches", <<>>, Buttons(list), 0, "", "")

\* a plausible slip: the length of top_matches is not tested
RenderMatchesNoLengthTest(P, id, node, data) ==
    IF data.top_matches.present
    THEN Settle(SetInnerHTML(P, node, MatchList(data.top_matches.list)),
                id, node, "matches")
    ELSE Settle(SetInnerHTML(P, node, NoAnswerFound), id, node, "noanswer")

\* if (data.top_matches && data.top_matches.length > 0) ... else ...
RenderMatches(P, id, node, data) ==
    IF data.top_matches.present /\ Len(data.top_matches.list) > 0
    THEN Settle(SetInnerHTML(P, node, MatchList(data.top_matches.list)),
                id, node, "matches")
    ELSE Settle(SetInnerHTML(P, node, NoAnswerFound), id, node, "noanswer")

\* const confEl = ...; parentRow.appendChild(confEl)
appendConfidence(P, node, confidence) ==
    [P EXCEPT !.messages[node].extras = Append(@, Percent(confidence))]

\* a plausible slip: if (data.confidence) in place of the typeof test
RenderAnswerTruthyConfidence(P, id, node, data) ==
    LET P1 == SetInnerHTML(P, node,
                  Text(IF Truthy(data.answer) THEN data.answer
                       ELSE "No answer returned."))
        P2 == IF data.confidence # <<>> /\ data.confidence # <<0>>
              THEN appendConfidence(P1, node, data.confidence[1]) ELSE P1
    IN  Settle(P2, id, node, "answer")

\* typingNode.innerHTML = data.answer || "No answer returned.";
\* if (typeof data.confidence === "number") appendConfidence(...)
RenderAnswer(P, id, node, data) ==
    LET P1 == SetInnerHTML(P, node,
                  Text(IF Truthy(data.answer) THEN data.answer
                       ELSE "No answer returned."))
        P2 == IF data.confidence # <<>>
              THEN appendConfidence(P1, node, data.confidence[1]) ELSE P1
    IN  Settle(P2, id, node, "answer")

\* botMessages[botMessages.length - 1].innerHTML = data.answer
RenderLast(P, id, node, data) ==
    Settle(SetInnerHTML(P, node, Text(data.answer)), id, node, "answer")

Render(v, P, id, data) ==
    LET node == TargetNode(v, P, id)
        P1 == [P EXCEPT !.calls[id].data = data]
    IN  CASE MultiMatch(v) -> RenderMatches(P1, id, node, data)
          [] v = Legacy -> RenderLast(P1, id, node, data)
          [] OTHER -> RenderAnswer(P1, id, node, data)

\* the continuation of `await fetch(...)`: the promise rejects, or resolves
\* with a response whose ok is as given
AfterFetch(v, P, id, result) ==
    LET P1 == [P EXCEPT !.calls[id].status = result]
    IN  IF result = "reject" \/ (ChecksStatus(v) /\ result = "not ok")
        THEN Finally(v, Catch(v, P1, id), id)
        ELSE [P1 EXCEPT !.calls[id].pc = "json"]

\* the continuation of `await res.json()`: a parse error, or the data
AfterJson(v, P, id, parsed, data) ==
    IF parsed THEN Finally(v, Render(v, P, id, data), id)
    ELSE Finally(v, Catch(v, P, id), id)

---------------------------------------------------------------------------
(* The match buttons *)

NoMatch == [keyword |-> "", confidence |-> 0, answer |-> "", markup |-> FALSE]

NoClick ==
    [row |-> 0, rank |-> 0, target |-> "none", match |-> NoMatch, shown |-> 0]

\* the elements a click on button b can land on (e.target): the button, or
\* the element inside it when the keyword holds one
Targets(b) == IF b.markup THEN {"button", "child"} ELSE {"button"}

\* parseInt(e.target.getAttribute("data-index")): the attribute is the
\* button's; any other element gives NaN (here: no index of the list)
DataIndex(b, target) == IF target = "button" THEN b.index ELSE Len(b.all)

\* app_chat's listener: match = data.top_matches[index];
\* e.target.parentElement.innerHTML = keyword and answer.  The button's
\* parent is the .message node; a NaN index makes match undefined and the
\* handler throws before it writes
ClickInline(P, row, b, target) ==
    LET index == DataIndex(b, target)
    IN  IF index + 1 \in 1..Len(b.all)
        THEN LET match == b.all[index + 1]
             IN  [SetInnerHTML(P, row, Revealed(0, match.keyword, match.answer))
                     EXCEPT !.ret = row]
        ELSE [P EXCEPT !.ret = 0]

\* a plausible slip: the answer written into the last bot row, as the first
\* script of static/script.js does with its responses
showAnswerIntoLast(P, match, index) ==
    LET body == IF Truthy(match.answer) THEN match.answer ELSE "<i>No snippet found</i>"
        node == LastRow(P.messages, "bot")
    IN  [SetInnerHTML(P, node, Revealed(index + 1, match.keyword, body))
            EXCEPT !.ret = node]

\* static/js showAnswer(match, index): a new bot row with the answer
showAnswer(P, match, index) ==
    LET body == IF Truthy(match.answer) THEN match.answer ELSE "<i>No snippet found</i>"
        P1 == [P EXCEPT !.messages =
                  Append(@, Row("bot", Revealed(index + 1, match.keyword, body)))]
    IN  [P1 EXCEPT !.ret = Len(P1.messages)]

\* the click handler of button b of the given row
ClickHandler(v, P, row, b, target) ==
    IF v = AppChat THEN ClickInline(P, row, b, target)
    ELSE showAnswer(P, b.match, b.index)

---------------------------------------------------------------------------
(* Events *)

\* the keypress events: the key, and whether Shift is held
KeyEvents ==
    { [key |-> "Enter", shiftKey |-> FALSE],
      [key |-> "Enter", shiftKey |-> TRUE],
      [key |-> "a", shiftKey |-> FALSE] }

KeyName(e) == (IF e.shiftKey THEN "Shift+" ELSE "") \o e.key

\* e.key === "Enter" && !e.shiftKey; the first script of static/script.js
\* tests e.key === "Enter" only
Submits(v, e) ==
    IF v = Legacy THEN e.key = "Enter" ELSE e.key = "Enter" /\ ~e.shiftKey

Init ==
    /\ variant \in Variants
    /\ inputValue = <<>>
    /\ inputDisabled = FALSE
    /\ sendBtnDisabled = FALSE
    /\ messages = <<>>
    /\ calls = <<>>
    /\ nCalls = 0
    /\ nClicks = 0
    /\ lastClick = NoClick
    /\ lastKey = "none"

\* the user edits the field; a disabled field cannot be edited
TypeInput ==
    /\ ~inputDisabled
    /\ \E text \in Inputs \ {inputValue} : inputValue' = text
    /\ UNCHANGED <<variant, inputDisabled, sendBtnDisabled, messages, calls,
                   nCalls, nClicks, lastClick, lastKey>>

CallSendMessage ==
    LET P == sendMessage(variant, Page)
    IN  /\ nCalls < MaxCalls
        /\ Commit(P)
        /\ nCalls' = nCalls + 1

\* inputField's keypress listener run on event e; a disabled field receives
\* no key events
KeypressEvent(e) ==
    /\ ~inputDisabled
    /\ lastKey' = KeyName(e)
    /\ IF Submits(variant, e)
       THEN CallSendMessage
       ELSE UNCHANGED <<inputValue, inputDisabled, sendBtnDisabled,
                        messages, calls, nCalls>>
    /\ UNCHANGED <<variant, nClicks, lastClick>>

Keypress == \E e \in KeyEvents : KeypressEvent(e)

\* sendBtn's click listener; a disabled button fires no click
ClickSend ==
    /\ ~sendBtnDisabled
    /\ CallSendMessage
    /\ UNCHANGED <<variant, nClicks, lastClick, lastKey>>

\* the fetch of call id settles
FetchSettles ==
    /\ \E id \in 1..Len(calls), result \in {"reject", "ok", "not ok"} :
          /\ calls[id].pc = "fetch"
          /\ Commit(AfterFetch(variant, Page, id, result))
    /\ UNCHANGED <<variant, nCalls, nClicks, lastClick, lastKey>>

\* res.json() of call id settles
JsonSettles ==
    /\ \E id \in 1..Len(calls) :
          /\ calls[id].pc = "json"
          /\ \/ Commit(AfterJson(variant, Page, id, FALSE, NoData))
             \/ \E data \in DataFor(variant) :
                   Commit(AfterJson(variant, Page, id, TRUE, data))
    /\ UNCHANGED <<variant, nCalls, nClicks, lastClick, lastKey>>

\* the user clicks the button of rank i of a rendered match list; shown is
\* the row that holds the revealed answer, 0 when the handler threw
ClickMatch ==
    /\ nClicks < MaxClicks
    /\ \E row \in 1..Len(messages) :
          /\ messages[row].content.kind = "matches"
          /\ \E i \in 1..Len(messages[row].content.buttons) :
                LET b == messages[row].content.buttons[i]
                IN  \E target \in Targets(b) :
                       LET P == ClickHandler(variant, Page, row, b, target)
                       IN  /\ Commit(P)
                           /\ lastClick' =
                                 [row |-> row, rank |-> i, target |-> target,
                                  match |-> b.match, shown |-> P.ret]
    /\ nClicks' = nClicks + 1
    /\ UNCHANGED <<variant, nCalls, lastKey>>

Next ==
    \/ TypeInput
    \/ Keypress
    \/ ClickSend
    \/ FetchSettles
    \/ JsonSettles
    \/ ClickMatch

Spec == Init /\ [][Next]_vars

---------------------------------------------------------------------------
(* Vocabulary of the properties *)

Ids == 1..Len(calls)

\* the calls whose round trip has not settled
InFlight == {id \in Ids : calls[id].pc # "done"}

\* the calls whose fetch promise is pending
FetchPending == {id \in Ids : calls[id].pc = "fetch"}

\* the bot rows that still read "Typing..."
Placeholders ==
    {i \in 1..Len(messages) :
        messages[i].sender = "bot" /\ messages[i].content.kind = "typing"}

Count(q, x) == Cardinality({i \in 1..Len(q) : q[i] = x})

Before(q, x, y) ==
    \E i, j \in 1..Len(q) : q[i] = x /\ q[j] = y /\ i < j

\* the five characters and their entities, character by character
EntityOf(c) ==
    CASE c = "&" -> AmpEntity
      [] c = "<" -> LtEntity
      [] c = ">" -> GtEntity
      [] c = "\"" -> QuotEntity
      [] c = "'" -> AposEntity
      [] OTHER -> <<c>>

RECURSIVE Entities(_)
Entities(s) == IF s = <<>> THEN <<>> ELSE EntityOf(Head(s)) \o Entities(Tail(s))

\* the characters of an escaped text between its <br> tags
RECURSIVE WithoutBr(_)
WithoutBr(s) ==
    IF s = <<>> THEN <<>>
    ELSE IF Len(s) >= Len(BrTag) /\ SubSeq(s, 1, Len(BrTag)) = BrTag
         THEN <<"\n">> \o WithoutBr(SubSeq(s, Len(BrTag) + 1, Len(s)))
         ELSE <<Head(s)>> \o WithoutBr(Tail(s))

RawSpecials == {"<", ">", "\"", "'"}

HasRaw(s) == \E i \in 1..Len(s) : s[i] \in RawSpecials

\* the match list call id received
ListOf(id) == calls[id].data.top_matches.list

\* the call that appended the given row as its placeholder
OwnerOf(row) == CHOOSE id \in Ids : calls[id].placeholder = row

---------------------------------------------------------------------------
(* C1 *)

\* C1: at most one request is in flight: in every reachable state the
\* number of issued-but-unsettled fetches is 0 or 1.
C1_AtMostOneInFlight == Cardinality(FetchPending) <= 1 /\ Cardinality(InFlight) <= 1

\* the same, for the scripts that disable the controls during the call
OneInFlightWhenDisabling ==
    DisablesControls(variant) => Cardinality(InFlight) <= 1

---------------------------------------------------------------------------
(* C2 *)

\* C2: the number of unresolved "Typing..." placeholders is exactly 1 while
\* a submission is between its start and its resolution and 0 otherwise.
C2_OnePendingPlaceholder ==
    Cardinality(Placeholders) = (IF InFlight # {} THEN 1 ELSE 0)

OnePlaceholderWhenDisabling ==
    DisablesControls(variant) => C2_OnePendingPlaceholder

---------------------------------------------------------------------------
(* C3 *)

\* C3: once the round trip of a submission has settled, whatever the
\* outcome, the re-enable step has run exactly once for that submission,
\* and with no round trip left the input and the send button are enabled.
C3_ReenabledExactlyOnce ==
    /\ \A id \in Ids : calls[id].pc = "done" => calls[id].finallyRuns = 1
    /\ \A id \in Ids : calls[id].pc # "done" => calls[id].finallyRuns = 0
    /\ InFlight = {} => ~inputDisabled /\ ~sendBtnDisabled

ReenabledOnceWhenDisabling ==
    DisablesControls(variant) => C3_ReenabledExactlyOnce

---------------------------------------------------------------------------
(* C4 *)

\* C4: while a request issued by sendMessage is unsettled both controls
\* are disabled, and they were disabled before the user message and the
\* placeholder were appended.
C4_DisabledDuringRoundTrip ==
    /\ InFlight # {} => inputDisabled /\ sendBtnDisabled
    /\ \A id \in Ids :
          /\ Before(calls[id].trace, "disable", "user")
          /\ Before(calls[id].trace, "disable", "bot")

DisabledDuringRoundTripWhenDisabling ==
    DisablesControls(variant) => C4_DisabledDuringRoundTrip

---------------------------------------------------------------------------
(* C5 *)

\* C5: the user row of every submission holds the submitted text with each
\* of < > & " ' replaced by its entity, once, so that no raw < > " ' of the
\* input reaches the DOM; bot-supplied text is inserted unchanged.
C5_UserTextEscaped ==
    \A id \in Ids :
        LET html == messages[calls[id].userRow].content.html
        IN  /\ WithoutBr(html) = Entities(calls[id].query)
            /\ ~HasRaw(WithoutBr(html))
            /\ (calls[id].outcome = "answer" /\ Truthy(calls[id].data.answer)
                  /\ calls[id].wrote = calls[id].placeholder)
                 => messages[calls[id].placeholder].content.body = calls[id].data.answer

UserTextEscapedWhenEscaping ==
    variant # Legacy => C5_UserTextEscaped

---------------------------------------------------------------------------
(* C6 *)

\* C6: a sendMessage call on empty or whitespace-only input changes
\* nothing: no row is appended, no request issued, the controls are not
\* disabled and the input field keeps its value.
C6_EmptyInputNoOp ==
    [][(nCalls' = nCalls + 1 /\ trim(inputValue) = <<>>)
          => UNCHANGED <<inputValue, inputDisabled, sendBtnDisabled, messages, calls>>]_vars

\* sendMessage has been called, every call was on blank input, and the
\* field holds whitespace
C6_Witness ==
    /\ nCalls >= 1
    /\ calls = <<>>
    /\ messages = <<>>
    /\ inputValue = <<" ", "\n">>
    /\ ~inputDisabled /\ ~sendBtnDisabled

---------------------------------------------------------------------------
(* C7 *)

\* C7: every sendMessage call on non-empty trimmed input appends exactly
\* one user row and exactly one bot row, the bot row as the "Typing..."
\* placeholder, and when the call settles it is that same node that has
\* been overwritten with the resolved content.
C7_OneUserOneBotRow ==
    \A id \in Ids :
        /\ Count(calls[id].trace, "user") = 1
        /\ Count(calls[id].trace, "bot") = 1
        /\ messages[calls[id].userRow].sender = "user"
        /\ messages[calls[id].placeholder].sender = "bot"
        /\ calls[id].pc # "done" => messages[calls[id].placeholder].content = Typing
        /\ calls[id].pc = "done" =>
              /\ calls[id].wrote = calls[id].placeholder
              /\ messages[calls[id].placeholder].content.kind # "typing"

OneUserOneBotRowWhenKeepingNode ==
    KeepsTypingNode(variant) => C7_OneUserOneBotRow

\* resolution never appends a row
ResolutionAppendsNoRow ==
    [][(\E id \in Ids : calls[id].pc # "done" /\ calls'[id].pc = "done")
          => Len(messages') = Len(messages)]_vars

---------------------------------------------------------------------------
(* C8 *)

\* the calls that ended in a non-success status or a thrown error
Failed(id) ==
    /\ calls[id].pc = "done"
    /\ calls[id].status \in {"reject", "not ok"} \/ calls[id].outcome = "error"

\* C8: after a non-success HTTP status, exactly as after a thrown network
\* or parse error, the placeholder of that submission reads the fixed
\* connectivity-error message and, no other round trip being open, the
\* controls are enabled.
C8_FailuresShowConnectError ==
    \A id \in Ids :
        Failed(id) =>
            /\ messages[calls[id].placeholder].content = ConnectError
            /\ InFlight = {} => ~inputDisabled /\ ~sendBtnDisabled

FailuresShowConnectErrorWhenChecking ==
    ChecksStatus(variant) => C8_FailuresShowConnectError

---------------------------------------------------------------------------
(* C9 *)

\* the summaries of a match list are those of the response, in order
SummariesOf(content, list) ==
    /\ Len(content.buttons) = Len(list)
    /\ \A i \in 1..Len(list) :
          /\ content.buttons[i].rank = i
          /\ content.buttons[i].keyword = list[i].keyword
          /\ content.buttons[i].percent = Percent(list[i].confidence)

\* C9: a response with N > 0 matches renders exactly N summaries, one per
\* match in response order with its 1-based rank, and a click on the i-th
\* summary reveals the keyword and the answer of match i.
C9_ClickRevealsMatch ==
    /\ \A id \in Ids :
          (calls[id].outcome = "matches"
             /\ messages[calls[id].placeholder].content.kind = "matches")
            => SummariesOf(messages[calls[id].placeholder].content, ListOf(id))
    /\ lastClick.row # 0 =>
          LET match == ListOf(OwnerOf(lastClick.row))[lastClick.rank]
          IN  /\ lastClick.shown # 0
              /\ messages[lastClick.shown].content.kind = "answer"
              /\ messages[lastClick.shown].content.kw = match.keyword
              /\ messages[lastClick.shown].content.body = match.answer

\* the same for clicks that land on the button itself, of matches that
\* carry an answer
ClickOnButtonRevealsMatch ==
    /\ \A id \in Ids :
          (calls[id].outcome = "matches"
             /\ messages[calls[id].placeholder].content.kind = "matches")
            => SummariesOf(messages[calls[id].placeholder].content, ListOf(id))
    /\ (lastClick.row # 0 /\ lastClick.target = "button")
         => LET match == ListOf(OwnerOf(lastClick.row))[lastClick.rank]
            IN  /\ lastClick.shown # 0
                /\ messages[lastClick.shown].content.kind = "answer"
                /\ messages[lastClick.shown].content.kw = match.keyword
                /\ Truthy(match.answer) =>
                      messages[lastClick.shown].content.body = match.answer

---------------------------------------------------------------------------
(* C10 *)

\* C10: after any sequence of clicks on the summaries of a response with N
\* matches, all N buttons are still present in the message of that
\* response.
C10_ClicksKeepButtons ==
    \A id \in Ids :
        calls[id].outcome = "matches" =>
            /\ messages[calls[id].placeholder].content.kind = "matches"
            /\ Len(messages[calls[id].placeholder].content.buttons) = Len(ListOf(id))

ClicksKeepButtonsInStaticJs ==
    variant = StaticJs => C10_ClicksKeepButtons

---------------------------------------------------------------------------
(* C11 *)

\* the submissions: the user rows of the transcript
Submissions == RowsOf(messages, "user")

\* C11: the number of requests issued equals the number of non-empty
\* submissions: each submission issues exactly one POST, and a failure
\* (non-success status, exception, zero matches) issues none.
C11_OneRequestPerSubmission ==
    /\ Len(calls) = Cardinality(Submissions)
    /\ \A id \in Ids : Count(calls[id].trace, "fetch") = 1
    /\ \A id, other \in Ids : calls[id].userRow = calls[other].userRow => id = other

\* no step but a sendMessage call issues a request
OnlySendMessageIssuesRequests ==
    [][Len(calls') # Len(calls)
          => nCalls' = nCalls + 1 /\ Len(calls') = Len(calls) + 1]_vars

\* a submission has failed and one has found no match, and no request is open
C11_Witness ==
    /\ InFlight = {}
    /\ \E id \in Ids : calls[id].outcome = "error" /\ calls[id].status = "not ok"
    /\ \E id \in Ids : calls[id].outcome = "noanswer"
    /\ Len(calls) = Cardinality(Submissions)

---------------------------------------------------------------------------
(* C12 *)

\* the calls of a multi-match script that got a success status and a body
\* that parsed, with top_matches empty or absent
SucceededWithoutMatches(id) ==
    /\ MultiMatch(variant)
    /\ calls[id].pc = "done"
    /\ calls[id].status = "ok"
    /\ calls[id].outcome # "error"
    /\ Len(ListOf(id)) = 0

\* C12: after a successful response whose top_matches is empty or absent
\* the placeholder reads the fixed "no relevant answer" message: no match
\* button is rendered and it is not the connectivity error.
C12_NoMatchesShowsNoAnswer ==
    \A id \in Ids :
        SucceededWithoutMatches(id) =>
            /\ messages[calls[id].placeholder].content = NoAnswerFound
            /\ messages[calls[id].placeholder].content.buttons = <<>>
            /\ messages[calls[id].placeholder].content # ConnectError

\* one response without top_matches and one with an empty list have been
\* rendered
C12_Witness ==
    /\ \E id \in Ids :
          SucceededWithoutMatches(id) /\ ~calls[id].data.top_matches.present
    /\ \E id \in Ids :
          SucceededWithoutMatches(id) /\ calls[id].data.top_matches.present
    /\ \A id \in Ids : messages[calls[id].placeholder].content = NoAnswerFound

---------------------------------------------------------------------------
(* C13 *)

\* a step keeps every row, and changes a row only by overwriting a
\* "Typing..." placeholder with its final content
RowsKept ==
    /\ Len(messages') >= Len(messages)
    /\ \A i \in 1..Len(messages) :
          messages'[i] # messages[i] =>
              /\ messages[i].sender = "bot"
              /\ messages[i].content = Typing
              /\ messages'[i].content # Typing

\* C13: no row of the transcript is ever removed, and the content of a
\* message changes only in the step that overwrites a "Typing..."
\* placeholder; a user message and a resolved bot message are never
\* modified.
C13_MessagesImmutable == [][RowsKept]_vars

\* the same for the scripts that keep typingNode and append the answers
ImmutableWhenAppending ==
    [][(variant \in {StaticJs, Single, Part000}) => RowsKept]_vars

---------------------------------------------------------------------------
(* C14 *)

\* the key events that are not Enter without Shift
OtherKeys == {e \in KeyEvents : ~(e.key = "Enter" /\ ~e.shiftKey)}

\* C14: a Shift+Enter keypress, like any key other than Enter, never calls
\* sendMessage: it appends no message and issues no request.
C14_OnlyPlainEnterSubmits ==
    [][(\E e \in OtherKeys : KeypressEvent(e))
          => UNCHANGED <<nCalls, messages, calls, inputValue,
                         inputDisabled, sendBtnDisabled>>]_vars

\* the same for the scripts that test e.shiftKey
OnlyPlainEnterSubmitsWhenTestingShift ==
    [][(variant # Legacy /\ \E e \in OtherKeys : KeypressEvent(e))
          => UNCHANGED <<nCalls, messages, calls, inputValue,
                         inputDisabled, sendBtnDisabled>>]_vars

\* Shift+Enter was pressed on a non-empty field and nothing was sent
ShiftEnterIgnored ==
    /\ lastKey = "Shift+Enter"
    /\ trim(inputValue) # <<>>
    /\ nCalls = 0
    /\ messages = <<>>

---------------------------------------------------------------------------
(* C15 *)

\* what the user row of a submission reads
UserRowOf(id) ==
    IF variant = Legacy THEN calls[id].query ELSE UserHtml(calls[id].query)

\* C15: within a submission the user message is appended first, the
\* "Typing..." placeholder right after it, and only then the POST is
\* issued; so the user rows stand in submission order, each directly
\* followed by the bot row of the same submission.
C15_UserThenPlaceholderThenPost ==
    /\ \A id \in Ids :
          /\ Before(calls[id].trace, "user", "bot")
          /\ Before(calls[id].trace, "bot", "fetch")
          /\ messages[calls[id].userRow].sender = "user"
          /\ messages[calls[id].userRow].content.html = UserRowOf(id)
          /\ calls[id].placeholder = calls[id].userRow + 1
          /\ messages[calls[id].placeholder].sender = "bot"
    /\ \A id, other \in Ids :
          id < other => calls[id].placeholder < calls[other].userRow
    /\ \A row \in Submissions : \E id \in Ids : calls[id].userRow = row

\* two submissions with an answer row of a match click between them, the
\* second still awaiting its response
C15_Witness ==
    /\ Len(calls) = 2
    /\ calls[2].pc = "fetch"
    /\ calls[2].userRow > calls[1].placeholder + 1
    /\ calls[1].query # calls[2].query

---------------------------------------------------------------------------
(* C16 *)

\* the rows that show the answer of a match
AnswerRows(msgs) == {i \in 1..Len(msgs) : msgs[i].content.kind = "answer"}

\* a rendered match list holds the summaries and no answer text
OnlySummaries(msgs) ==
    \A i \in 1..Len(msgs) :
        msgs[i].content.kind = "matches" =>
            /\ msgs[i].content.body = ""
            /\ msgs[i].content.kw = ""
            /\ msgs[i].content.html = <<>>
            /\ \A k \in 1..Len(msgs[i].content.buttons) :
                  /\ msgs[i].content.buttons[k].keyword =
                        msgs[i].content.buttons[k].match.keyword
                  /\ msgs[i].content.buttons[k].percent =
                        Percent(msgs[i].content.buttons[k].match.confidence)

\* the step is a click on a match button and row i shows that match
ShownByClick(i) ==
    /\ nClicks' = nClicks + 1
    /\ lastClick'.shown = i
    /\ messages'[i].content.kw = lastClick'.match.keyword
    /\ messages'[i].content.body =
          IF variant = StaticJs /\ ~Truthy(lastClick'.match.answer)
          THEN "<i>No snippet found</i>" ELSE lastClick'.match.answer

\* C16: in the multi-match variants the answer of a match enters the
\* transcript only by a click on the button of that match; resolving the
\* placeholder shows keyword and confidence summaries only.
C16_AnswersDeferredUntilClicked ==
    [][MultiMatch(variant) =>
          /\ OnlySummaries(messages')
          /\ \A i \in AnswerRows(messages') :
                (i \notin AnswerRows(messages) \/ messages'[i] # messages[i])
                   => ShownByClick(i)]_vars

\* no more answers in the transcript than clicks made
AnswersWithinClicks ==
    MultiMatch(variant) => Cardinality(AnswerRows(messages)) <= nClicks

\* a response with two different matches, one of them revealed by a click
\* and the answer of the other nowhere in the transcript
C16_Witness ==
    /\ MultiMatch(variant)
    /\ nClicks = 1
    /\ lastClick.shown # 0
    /\ LET list == ListOf(OwnerOf(lastClick.row))
       IN  /\ Len(list) = 2
           /\ list[1].answer # list[2].answer
           /\ messages[lastClick.shown].content.body = lastClick.match.answer
           /\ \A i \in 1..Len(messages), k \in 1..2 :
                 (messages[i].content.body = list[k].answer
                    /\ Truthy(list[k].answer))
                   => (i = lastClick.shown /\ k = lastClick.rank)

---------------------------------------------------------------------------
(* C17 *)

SingleAnswer(v) == v \in {Single, Part000}

\* the annotations of the rows of a submission
AnnotationsOf(id) ==
    messages[calls[id].userRow].extras \o messages[calls[id].placeholder].extras

\* C17: in the single-answer variant a successful response puts data.answer
\* in the placeholder, or "No answer returned." when the answer is missing
\* or empty, and the row gets a confidence annotation if and only if
\* data.confidence is a number, 0 included; a submission gets one
\* annotation at most.
C17_AnswerAndConfidence ==
    SingleAnswer(variant) =>
        \A id \in Ids :
            /\ Len(AnnotationsOf(id)) <= 1
            /\ calls[id].outcome # "answer" => AnnotationsOf(id) = <<>>
            /\ calls[id].outcome = "answer" =>
                  /\ calls[id].status = "ok"
                  /\ messages[calls[id].placeholder].content =
                        Text(IF calls[id].data.answer \in {Absent, ""}
                             THEN "No answer returned."
                             ELSE calls[id].data.answer)
                  /\ messages[calls[id].placeholder].extras =
                        IF calls[id].data.confidence = <<>> THEN <<>>
                        ELSE <<Percent(calls[id].data.confidence[1])>>

\* an empty answer with confidence 0, and an answer without confidence
C17_Witness ==
    /\ SingleAnswer(variant)
    /\ \E id \in Ids :
          /\ calls[id].outcome = "answer"
          /\ calls[id].data.answer = ""
          /\ calls[id].data.confidence = <<0>>
          /\ messages[calls[id].placeholder].content.body = "No answer returned."
          /\ messages[calls[id].placeholder].extras = <<Percent(0)>>
    /\ \E id \in Ids :
          /\ calls[id].outcome = "answer"
          /\ calls[id].data.answer = "The answer"
          /\ calls[id].data.confidence = <<>>
          /\ messages[calls[id].placeholder].extras = <<>>

---------------------------------------------------------------------------
(* C18 *)

\* call id has settled into the row it appended, and while it is open that
\* row still reads "Typing..."
ResolvesOwn(id) ==
    IF calls[id].pc = "done"
    THEN /\ calls[id].wrote = calls[id].placeholder
         /\ messages[calls[id].wrote].sender = "bot"
         /\ calls[id].wrote \notin {calls[other].placeholder : other \in Ids \ {id}}
    ELSE /\ calls[id].wrote = 0
         /\ messages[calls[id].placeholder].content = Typing

\* C18: the content produced when a request settles is written into the
\* bot node its own sendMessage call appended, never into the bot row of
\* another submission or a row appended by a click, under every
\* interleaving of submissions, clicks and responses.
C18_ResolvesOwnPlaceholder == \A id \in Ids : ResolvesOwn(id)

\* the same for the scripts that keep typingNode
ResolvesOwnWhenKeepingNode ==
    KeepsTypingNode(variant) => \A id \in Ids : ResolvesOwn(id)

\* typingNode in use: a response written into its placeholder although a
\* later bot row, appended by a click, is the last one
ResolvedBelowLaterRow ==
    /\ variant = StaticJs
    /\ \E id \in Ids :
          /\ calls[id].pc = "done"
          /\ calls[id].wrote = calls[id].placeholder
          /\ LastRow(messages, "bot") > calls[id].placeholder
          /\ lastClick.shown > calls[id].placeholder

---------------------------------------------------------------------------
(* C19 *)

\* the rows of the open submissions are as they were
OpenSubmissionsKept ==
    \A id \in InFlight :
        /\ messages'[calls[id].userRow] = messages[calls[id].userRow]
        /\ messages'[calls[id].placeholder] = messages[calls[id].placeholder]

\* C19: a click on a match button, also while a later request is in
\* flight, leaves the disabled state of the input and the send button, the
\* in-flight request, the pending placeholder of the later submission and
\* the value of the input as they were, and issues no request.
C19_ClickLeavesRequestAlone ==
    [][nClicks' # nClicks =>
          /\ UNCHANGED <<inputValue, inputDisabled, sendBtnDisabled, calls, nCalls>>
          /\ OpenSubmissionsKept]_vars

\* an answer shown by a click below the placeholder of a request that is
\* still in flight, the controls disabled
C19_Witness ==
    /\ MultiMatch(variant)
    /\ inputDisabled /\ sendBtnDisabled
    /\ \E id \in InFlight :
          /\ lastClick.shown > calls[id].placeholder
          /\ lastClick.row < calls[id].userRow
          /\ messages[calls[id].placeholder].content = Typing

====
